---- MODULE Spec2Model ----
(***************************************************************************)
(* Model of src/bot.py (PinBot): the voting-session lifecycle, the pin     *)
(* executor with its per-channel cooldown, and the periodic cleanup.       *)
(*                                                                         *)
(* Each coroutine is modelled at the granularity of asyncio: a step runs   *)
(* from one suspension point (await of an external call, or of a lock that *)
(* is taken) to the next.  Code between two awaits is one atomic action.   *)
(*                                                                         *)
(* Modelling notes:                                                        *)
(*  - `async with self.session_lock` does not suspend when the lock is     *)
(*    free, so a handler that finds it free runs its locked body in the    *)
(*    same step; otherwise it waits (pc *_lock) until the lock is free.    *)
(*    Any waiter may be the next to take the lock.                         *)
(*  - pin_cooldown is a defaultdict(float): a channel never pinned reads   *)
(*    0.0, so it is a total function that starts at 0.                     *)
(*  - loop.time() is a monotonic clock and created_at.timestamp() a wall   *)
(*    clock; epoch_offset is their (platform dependent) difference.        *)
(*  - The handlers take whatever the gateway delivers: on_message may be   *)
(*    called again with a message id it has already seen.                  *)
(*  - created_time, attempts, events, last_ok, pins_ok, pin_event: history *)
(*    variables that record what happened and influence nothing, except    *)
(*    that events stops the delivery of new events after MaxEvents.        *)
(*    pin_event describes the last step only: a call or return of the pin  *)
(*    executor (kind "message" or "reaction"), a vote handled without a    *)
(*    pin call (kind "add" or "remove"), or a sweep (kind "sweep").        *)
(***************************************************************************)
EXTENDS Integers, FiniteSets, Sequences, TLC

\* ---------------------------------------------------------------- bounds
MaxCap == 2            \* confirm_cap ranges over 0..MaxCap
MaxUser == 2           \* users 1..MaxUser, plus the bot itself
MaxMsg == 1            \* trigger message ids 1..MaxMsg
MaxChannel == 2        \* channel ids 1..MaxChannel
MaxTarget == 1         \* referenced (target) message ids 1..MaxTarget
MaxTargetAge == 0      \* a target is 0..MaxTargetAge seconds old when it is fetched
MaxTick == 0           \* clock readings 0, the cooldown, and max age .. max age + MaxTick
MaxEpochOffset == 7200 \* largest modelled difference wall clock - loop clock
NumTasks == 2          \* event handlers that may be in flight at once
MaxAttempts == 2       \* the pin-attempt counter saturates here
MaxEvents == 4         \* gateway events that are not ignored by the filters

\* ------------------------------------------------------ program constants
PIN_COOLDOWN_SECONDS == 5
SESSION_MAX_AGE == 3600
CLEANUP_INTERVAL == 300
NUM_REACTIONS == 3

BotUser == 0
Users == 0..MaxUser
MsgIds == 1..MaxMsg
Channels == 1..MaxChannel
TargetIds == 1..MaxTarget
\* A reply may refer to a message of any age: a fresh one, or one that is
\* already older than SESSION_MAX_AGE.
TargetAges == (0..MaxTargetAge) \cup {SESSION_MAX_AGE + 1}
Tasks == 1..NumTasks
Emojis == {"approve", "other"}
Times == {0, PIN_COOLDOWN_SECONDS} \cup (SESSION_MAX_AGE..(SESSION_MAX_AGE + MaxTick))
EpochOffsets == {0, MaxEpochOffset}

NoHolder == 0
NoTarget == [id |-> 0, channel |-> 0, created_at |-> 0]
NoEvent == [result |-> "none", kind |-> "none", task |-> 0, key |-> 0,
            target |-> NoTarget, channel |-> 0, start |-> 0, count |-> 0,
            changed |-> FALSE]
NoSession == -1
IdleTask == [pc |-> "idle", message_id |-> 0, user |-> 0, channel |-> 0,
             target |-> NoTarget, current_time |-> 0, i |-> 0, notice |-> "none"]

VARIABLES
    confirm_cap,       \* PinBot.confirm_cap
    voting_sessions,   \* PinBot.voting_sessions : message id -> VotingSession
    pin_cooldown,      \* PinBot.pin_cooldown (defaultdict(float))
    session_lock,      \* PinBot.session_lock : NoHolder or the holding task
    tasks,             \* the running handler coroutines and their locals
    now,               \* asyncio loop time (monotonic clock)
    epoch_offset,      \* wall clock (created_at.timestamp()) minus loop time
    next_sweep,        \* loop time at which periodic_cleanup's sleep ends
    created_time,      \* history: loop time at which each session was stored
    attempts,          \* history: pin executor calls made for each key's session
    events,            \* history: number of events handled so far
    last_ok,           \* history: start time of the last successful pin per channel
    pins_ok,           \* history: successful pins made for each key's session
    pin_event          \* history: what the last step did (pin call, vote, sweep)

vars == <<confirm_cap, voting_sessions, pin_cooldown, session_lock, tasks, now,
          epoch_offset, next_sweep, created_time, attempts, events, last_ok,
          pins_ok, pin_event>>

\* --------------------------------------------------------- VotingSession
NewSession(target) == [target_message |-> target, votes |-> {}, vote_count |-> 0]

\* add_vote without the membership test of line 25.
add_vote_unchecked(s, user_id) ==
    [session |-> [s EXCEPT !.votes = @ \cup {user_id}, !.vote_count = @ + 1],
     result |-> TRUE]

\* add_vote returning True for a user who has voted already.
add_vote_always_true(s, user_id) ==
    IF user_id \notin s.votes
    THEN [session |-> [s EXCEPT !.votes = @ \cup {user_id}, !.vote_count = @ + 1],
          result |-> TRUE]
    ELSE [session |-> s, result |-> TRUE]

add_vote(s, user_id) ==
    IF user_id \notin s.votes
    THEN [session |-> [s EXCEPT !.votes = @ \cup {user_id}, !.vote_count = @ + 1],
          result |-> TRUE]
    ELSE [session |-> s, result |-> FALSE]

\* remove_vote without the decrement of line 35.
remove_vote_no_decrement(s, user_id) ==
    IF user_id \in s.votes
    THEN [session |-> [s EXCEPT !.votes = @ \ {user_id}], result |-> TRUE]
    ELSE [session |-> s, result |-> FALSE]

remove_vote(s, user_id) ==
    IF user_id \in s.votes
    THEN [session |-> [s EXCEPT !.votes = @ \ {user_id}, !.vote_count = @ - 1],
          result |-> TRUE]
    ELSE [session |-> s, result |-> FALSE]

\* ------------------------------------------------------------- predicates
\* The test of line 113 never taken.
ImmediatePin_never(cap) == FALSE

ImmediatePin(cap) == cap = 0

\* The test of line 173 with > for >=.
ThresholdReached_strict(count, cap) == count > cap

ThresholdReached(count, cap) == count >= cap

RateLimited(current_time, last_pin) ==
    current_time - last_pin < PIN_COOLDOWN_SECONDS

Expired(current_time, created_at) ==
    current_time - created_at > SESSION_MAX_AGE

IgnoredMessage(author, has_reference, mentions_bot) ==
    author = BotUser \/ ~has_reference \/ ~mentions_bot

\* The filter of lines 158 and 181 without the test of the bot's own id.
IgnoredReaction_nobot(user, emoji) == emoji # "approve"

IgnoredReaction(user, emoji) == user = BotUser \/ emoji # "approve"

\* The except clauses of lines 131-135 never taken.
FetchFailed_never(outcome) == FALSE

FetchFailed(outcome) == outcome \in {"NotFound", "HTTPException"}

WallClock(t) == t + epoch_offset

Bump(n) == IF n < MaxAttempts THEN n + 1 ELSE MaxAttempts

\* The del of line 176 left out.
Remove_noop(f, k) == f

Remove(f, k) == [x \in DOMAIN f \ {k} |-> f[x]]

Put(f, k, v) == [x \in DOMAIN f \cup {k} |-> IF x = k THEN v ELSE f[x]]

\* --------------------------------------------------------------- initial
Init ==
    /\ confirm_cap \in 0..MaxCap
    /\ voting_sessions = <<>>
    /\ pin_cooldown = [c \in Channels |-> 0]
    /\ session_lock = NoHolder
    /\ tasks = [h \in Tasks |-> IdleTask]
    /\ now = 0
    /\ epoch_offset \in EpochOffsets
    /\ next_sweep = CLEANUP_INTERVAL
    /\ created_time = <<>>
    /\ attempts = [k \in MsgIds |-> 0]
    /\ events = 0
    /\ last_ok = [c \in Channels |-> -1]
    /\ pins_ok = [k \in MsgIds |-> 0]
    /\ pin_event = NoEvent

\* ------------------------------------------------- pin_message_safely
\* The call of pin_message_safely up to its first await: the clock is read,
\* the cooldown is checked, and either the call returns False at once or the
\* coroutine suspends in message.pin().  `sessions` is the store as its caller
\* left it, `holds` says whether the caller holds session_lock.
PinCall(h, kind, key, target, count, sessions, holds, pinpc) ==
    LET limited == RateLimited(now, pin_cooldown[target.channel])
        ev == [result |-> IF limited THEN "limited" ELSE "pending",
               kind |-> kind, task |-> h, key |-> key, target |-> target,
               channel |-> target.channel, start |-> now, count |-> count,
               changed |-> kind = "reaction"]
    IN  /\ voting_sessions' = sessions
        /\ attempts' = IF kind = "reaction"
                       THEN [attempts EXCEPT ![key] = Bump(@)] ELSE attempts
        /\ pin_event' = ev
        /\ IF limited
           THEN /\ tasks' = [tasks EXCEPT ![h] = IdleTask]
                /\ session_lock' = IF holds THEN NoHolder ELSE session_lock
           ELSE /\ tasks' = [tasks EXCEPT ![h] =
                       [IdleTask EXCEPT !.pc = pinpc, !.message_id = key,
                                        !.target = target, !.channel = target.channel,
                                        !.current_time = now]]
                /\ session_lock' = IF holds THEN h ELSE session_lock
        /\ UNCHANGED <<confirm_cap, pin_cooldown, now, epoch_offset, next_sweep,
                       created_time, last_ok, pins_ok>>

\* Line 149 moved out of the try block: the entry is written whatever
\* message.pin() did.
CooldownAfter_always(cooldown, channel, current_time, ok) ==
    [cooldown EXCEPT ![channel] = current_time]

\* Lines 147-154: the cooldown entry of the channel is written only when
\* message.pin() returned, with the clock reading taken at line 139.
CooldownAfter(cooldown, channel, current_time, ok) ==
    IF ok THEN [cooldown EXCEPT ![channel] = current_time] ELSE cooldown

\* message.pin() returns or raises discord.HTTPException; the rest of
\* pin_message_safely and of its caller runs without a further await.
PinReturn(h, ok) ==
    LET t == tasks[h]
        locked == t.pc = "ra_pin"
        count == IF locked THEN voting_sessions[t.message_id].vote_count ELSE 0
    IN  /\ t.pc \in {"om_pin", "ra_pin"}
        /\ events' = events
        /\ pin_event' = [result |-> IF ok THEN "ok" ELSE "failed",
                         kind |-> IF locked THEN "reaction" ELSE "message",
                         task |-> h, key |-> t.message_id, target |-> t.target,
                         channel |-> t.channel, start |-> t.current_time,
                         count |-> count, changed |-> FALSE]
        /\ pin_cooldown' = CooldownAfter(pin_cooldown, t.channel, t.current_time, ok)
        /\ last_ok' = IF ok THEN [last_ok EXCEPT ![t.channel] = t.current_time]
                      ELSE last_ok
        /\ pins_ok' = IF ok /\ locked THEN [pins_ok EXCEPT ![t.message_id] = Bump(@)]
                      ELSE pins_ok
        /\ voting_sessions' = IF ok /\ locked THEN Remove(voting_sessions, t.message_id)
                              ELSE voting_sessions
        /\ created_time' = IF ok /\ locked THEN Remove(created_time, t.message_id)
                           ELSE created_time
        /\ session_lock' = IF locked THEN NoHolder ELSE session_lock
        /\ tasks' = [tasks EXCEPT ![h] = IdleTask]
        /\ UNCHANGED <<confirm_cap, now, epoch_offset, next_sweep, attempts>>

\* ------------------------------------------------------------ on_message
\* Lines 118-120: the session is stored under the trigger message id, inside
\* session_lock; no await happens while the lock is held.
CreateSession(h, key, target) ==
    /\ voting_sessions' = Put(voting_sessions, key, NewSession(target))
    /\ created_time' = Put(created_time, key, now)
    /\ attempts' = [attempts EXCEPT ![key] = 0]
    /\ pins_ok' = [pins_ok EXCEPT ![key] = 0]
    /\ tasks' = [tasks EXCEPT ![h] =
            [IdleTask EXCEPT !.pc = "om_react", !.message_id = key]]
    /\ pin_event' = NoEvent
    /\ UNCHANGED <<confirm_cap, pin_cooldown, session_lock, now, epoch_offset,
                   next_sweep, last_ok>>

\* A handler starts in the lowest free slot (the slots are interchangeable).
FreeSlot(h) == tasks[h].pc = "idle" /\ \A g \in Tasks : g < h => tasks[g].pc # "idle"

Skip == pin_event' = NoEvent /\ events' = events /\
        UNCHANGED <<confirm_cap, voting_sessions, pin_cooldown, session_lock, tasks,
                    now, epoch_offset, next_sweep, created_time, attempts, last_ok, pins_ok>>

\* Lines 99-111: the filters, then the handler suspends in fetch_message.
on_message(h, id, author, has_reference, mentions_bot, channel) ==
    /\ FreeSlot(h)
    /\ IF IgnoredMessage(author, has_reference, mentions_bot)
       THEN Skip
       ELSE /\ events < MaxEvents
            /\ events' = events + 1
            /\ tasks' = [tasks EXCEPT ![h] =
                   [IdleTask EXCEPT !.pc = "om_fetch", !.message_id = id,
                                    !.channel = channel]]
            /\ pin_event' = NoEvent
            /\ UNCHANGED <<confirm_cap, voting_sessions, pin_cooldown, session_lock,
                           now, epoch_offset, next_sweep, created_time, attempts,
                           last_ok, pins_ok>>

\* Lines 111-120 and 131-135: fetch_message returns the target or raises.
fetch_returns(h, outcome, tid, age) ==
    LET t == tasks[h]
        target == [id |-> tid, channel |-> t.channel,
                   created_at |-> WallClock(now) - age]
    IN  /\ t.pc = "om_fetch"
        /\ events' = events
        /\ IF FetchFailed(outcome)
           THEN /\ tasks' = [tasks EXCEPT ![h] =
                       [IdleTask EXCEPT !.pc = "om_reply", !.message_id = t.message_id,
                                        !.channel = t.channel, !.notice = outcome]]
                /\ pin_event' = NoEvent
                /\ UNCHANGED <<confirm_cap, voting_sessions, pin_cooldown,
                               session_lock, now, epoch_offset, next_sweep,
                               created_time, attempts, last_ok, pins_ok>>
           ELSE IF ImmediatePin(confirm_cap)
           THEN PinCall(h, "message", t.message_id, target, 0, voting_sessions,
                        FALSE, "om_pin")
           ELSE IF session_lock = NoHolder
           THEN CreateSession(h, t.message_id, target)
           ELSE /\ tasks' = [tasks EXCEPT ![h] = [t EXCEPT !.pc = "om_lock",
                                                           !.target = target]]
                /\ pin_event' = NoEvent
                /\ UNCHANGED <<confirm_cap, voting_sessions, pin_cooldown,
                               session_lock, now, epoch_offset, next_sweep,
                               created_time, attempts, last_ok, pins_ok>>

\* Line 118 when the lock was taken: the handler resumes once it is free.
create_after_lock(h) ==
    /\ tasks[h].pc = "om_lock"
    /\ events' = events
    /\ session_lock = NoHolder
    /\ CreateSession(h, tasks[h].message_id, tasks[h].target)

\* Lines 125-129 with the loop left at the first HTTPException.
add_reaction_returns_abort(h, ok) ==
    LET t == tasks[h]
    IN  /\ t.pc = "om_react"
        /\ events' = events
        /\ tasks' = [tasks EXCEPT ![h] =
                IF t.i + 1 = NUM_REACTIONS \/ ~ok THEN IdleTask
                ELSE [t EXCEPT !.i = @ + 1]]
        /\ pin_event' = NoEvent
        /\ UNCHANGED <<confirm_cap, voting_sessions, pin_cooldown, session_lock,
                       now, epoch_offset, next_sweep, created_time, attempts, last_ok, pins_ok>>

\* Lines 125-129: one add_reaction returns or raises HTTPException (logged).
add_reaction_returns(h, ok) ==
    LET t == tasks[h]
    IN  /\ t.pc = "om_react"
        /\ events' = events
        /\ tasks' = [tasks EXCEPT ![h] =
                IF t.i + 1 = NUM_REACTIONS THEN IdleTask
                ELSE [t EXCEPT !.i = @ + 1,
                               !.notice = IF ok THEN @ ELSE "reaction_failed"]]
        /\ pin_event' = NoEvent
        /\ UNCHANGED <<confirm_cap, voting_sessions, pin_cooldown, session_lock,
                       now, epoch_offset, next_sweep, created_time, attempts, last_ok, pins_ok>>

\* Lines 132 and 135: the error reply has been sent.
reply_returns(h) ==
    /\ tasks[h].pc = "om_reply"
    /\ events' = events
    /\ tasks' = [tasks EXCEPT ![h] = IdleTask]
    /\ pin_event' = NoEvent
    /\ UNCHANGED <<confirm_cap, voting_sessions, pin_cooldown, session_lock,
                   now, epoch_offset, next_sweep, created_time, attempts, last_ok, pins_ok>>

\* ------------------------------------------------------- on_reaction_add
VoteEvent(kind, key, count, changed) ==
    [NoEvent EXCEPT !.kind = kind, !.key = key, !.count = count,
                    !.changed = changed]

\* Lines 164-177, run with session_lock held.
ReactionAddBody(h, message_id, user) ==
    IF message_id \notin DOMAIN voting_sessions
    THEN /\ tasks' = [tasks EXCEPT ![h] = IdleTask]
         /\ session_lock' = NoHolder
         /\ pin_event' = VoteEvent("add", message_id, NoSession, FALSE)
         /\ UNCHANGED <<confirm_cap, voting_sessions, pin_cooldown, now,
                        epoch_offset, next_sweep, created_time, attempts, last_ok, pins_ok>>
    ELSE LET r == add_vote(voting_sessions[message_id], user)
             sessions == [voting_sessions EXCEPT ![message_id] = r.session]
         IN  IF r.result /\ ThresholdReached(r.session.vote_count, confirm_cap)
             THEN PinCall(h, "reaction", message_id, r.session.target_message,
                          r.session.vote_count, sessions, TRUE, "ra_pin")
             ELSE /\ voting_sessions' = sessions
                  /\ tasks' = [tasks EXCEPT ![h] = IdleTask]
                  /\ session_lock' = NoHolder
                  /\ pin_event' = VoteEvent("add", message_id, r.session.vote_count,
                                            r.result)
                  /\ UNCHANGED <<confirm_cap, pin_cooldown, now, epoch_offset,
                                 next_sweep, created_time, attempts, last_ok, pins_ok>>

WaitForLock(h, pc, message_id, user) ==
    /\ tasks' = [tasks EXCEPT ![h] =
            [IdleTask EXCEPT !.pc = pc, !.message_id = message_id, !.user = user]]
    /\ pin_event' = NoEvent
    /\ UNCHANGED <<confirm_cap, voting_sessions, pin_cooldown, session_lock,
                   now, epoch_offset, next_sweep, created_time, attempts, last_ok, pins_ok>>

\* Lines 156-163.
on_reaction_add(h, message_id, user, emoji) ==
    /\ FreeSlot(h)
    /\ IF IgnoredReaction(user, emoji) THEN Skip
       ELSE /\ events < MaxEvents
            /\ events' = events + 1
            /\ IF session_lock = NoHolder THEN ReactionAddBody(h, message_id, user)
               ELSE WaitForLock(h, "ra_lock", message_id, user)

reaction_add_after_lock(h) ==
    /\ tasks[h].pc = "ra_lock"
    /\ events' = events
    /\ session_lock = NoHolder
    /\ ReactionAddBody(h, tasks[h].message_id, tasks[h].user)

\* ---------------------------------------------------- on_reaction_remove
\* Lines 187-193 with the session deleted once its last vote is taken back.
ReactionRemoveBody_drop(h, message_id, user) ==
    /\ IF message_id \in DOMAIN voting_sessions
       THEN LET r == remove_vote(voting_sessions[message_id], user)
            IN  /\ voting_sessions' =
                      IF r.result /\ r.session.vote_count = 0
                      THEN Remove(voting_sessions, message_id)
                      ELSE [voting_sessions EXCEPT ![message_id] = r.session]
                /\ pin_event' = VoteEvent("remove", message_id,
                                          r.session.vote_count, r.result)
       ELSE /\ voting_sessions' = voting_sessions
            /\ pin_event' = VoteEvent("remove", message_id, NoSession, FALSE)
    /\ tasks' = [tasks EXCEPT ![h] = IdleTask]
    /\ session_lock' = NoHolder
    /\ UNCHANGED <<confirm_cap, pin_cooldown, now, epoch_offset, next_sweep,
                   created_time, attempts, last_ok, pins_ok>>

\* Lines 187-193, run with session_lock held.
ReactionRemoveBody(h, message_id, user) ==
    /\ IF message_id \in DOMAIN voting_sessions
       THEN LET r == remove_vote(voting_sessions[message_id], user)
            IN  /\ voting_sessions' =
                      [voting_sessions EXCEPT ![message_id] = r.session]
                /\ pin_event' = VoteEvent("remove", message_id,
                                          r.session.vote_count, r.result)
       ELSE /\ voting_sessions' = voting_sessions
            /\ pin_event' = VoteEvent("remove", message_id, NoSession, FALSE)
    /\ tasks' = [tasks EXCEPT ![h] = IdleTask]
    /\ session_lock' = NoHolder
    /\ UNCHANGED <<confirm_cap, pin_cooldown, now, epoch_offset, next_sweep,
                   created_time, attempts, last_ok, pins_ok>>

\* Lines 179-186.
on_reaction_remove(h, message_id, user, emoji) ==
    /\ FreeSlot(h)
    /\ IF IgnoredReaction(user, emoji) THEN Skip
       ELSE /\ events < MaxEvents
            /\ events' = events + 1
            /\ IF session_lock = NoHolder THEN ReactionRemoveBody(h, message_id, user)
               ELSE WaitForLock(h, "rr_lock", message_id, user)

reaction_remove_after_lock(h) ==
    /\ tasks[h].pc = "rr_lock"
    /\ events' = events
    /\ session_lock = NoHolder
    /\ ReactionRemoveBody(h, tasks[h].message_id, tasks[h].user)

\* ------------------------------------------------------ periodic_cleanup
ToRemove(sessions, current_time) ==
    {k \in DOMAIN sessions :
        Expired(current_time, sessions[k].target_message.created_at)}

\* Lines 75-88 without the lock of line 77.
periodic_cleanup_nolock ==
    /\ now >= next_sweep
    /\ events' = events
    /\ LET to_remove == ToRemove(voting_sessions, now)
       IN  /\ voting_sessions' = [k \in DOMAIN voting_sessions \ to_remove |->
                                     voting_sessions[k]]
           /\ created_time' = [k \in DOMAIN created_time \ to_remove |->
                                  created_time[k]]
    /\ next_sweep' = now + CLEANUP_INTERVAL
    /\ pin_event' = [NoEvent EXCEPT !.kind = "sweep",
                                    !.count = Cardinality(ToRemove(voting_sessions, now))]
    /\ UNCHANGED <<confirm_cap, pin_cooldown, session_lock, tasks, now,
                   epoch_offset, attempts, last_ok, pins_ok>>

\* Lines 75-88: the sleep has ended and the lock is free; the scan and the
\* deletions run without an await.
periodic_cleanup ==
    /\ now >= next_sweep
    /\ events' = events
    /\ session_lock = NoHolder
    /\ LET to_remove == ToRemove(voting_sessions, now)
       IN  /\ voting_sessions' = [k \in DOMAIN voting_sessions \ to_remove |->
                                     voting_sessions[k]]
           /\ created_time' = [k \in DOMAIN created_time \ to_remove |->
                                  created_time[k]]
    /\ next_sweep' = now + CLEANUP_INTERVAL
    /\ pin_event' = [NoEvent EXCEPT !.kind = "sweep",
                                    !.count = Cardinality(ToRemove(voting_sessions, now))]
    /\ UNCHANGED <<confirm_cap, pin_cooldown, session_lock, tasks, now,
                   epoch_offset, attempts, last_ok, pins_ok>>

\* ------------------------------------------------------------- the clock
Tick ==
    /\ \E t \in Times : t > now /\ now' = t
    /\ events' = events
    /\ pin_event' = NoEvent
    /\ UNCHANGED <<confirm_cap, voting_sessions, pin_cooldown, session_lock, tasks,
                   epoch_offset, next_sweep, created_time, attempts, last_ok, pins_ok>>

Next ==
    \/ \E h \in Tasks, id \in MsgIds, author \in Users, r \in BOOLEAN,
          m \in BOOLEAN, c \in Channels : on_message(h, id, author, r, m, c)
    \/ \E h \in Tasks, o \in {"found", "NotFound", "HTTPException"},
          tid \in TargetIds, age \in TargetAges : fetch_returns(h, o, tid, age)
    \/ \E h \in Tasks : create_after_lock(h)
    \/ \E h \in Tasks, ok \in BOOLEAN : add_reaction_returns(h, ok)
    \/ \E h \in Tasks : reply_returns(h)
    \/ \E h \in Tasks, ok \in BOOLEAN : PinReturn(h, ok)
    \/ \E h \in Tasks, id \in MsgIds, u \in Users, e \in Emojis :
          on_reaction_add(h, id, u, e)
    \/ \E h \in Tasks : reaction_add_after_lock(h)
    \/ \E h \in Tasks, id \in MsgIds, u \in Users, e \in Emojis :
          on_reaction_remove(h, id, u, e)
    \/ \E h \in Tasks : reaction_remove_after_lock(h)
    \/ periodic_cleanup
    \/ Tick

Spec == Init /\ [][Next]_vars

\* ------------------------------------------------------------------------
\* Steps and events the properties speak about.
PinInvoked(ev) == ev.result \in {"pending", "limited"}

PinCompleted(ev) == ev.result \in {"ok", "limited", "failed"}

SweepStep == next_sweep' # next_sweep

CreateStep(k) ==
    \E h \in Tasks : /\ tasks[h].pc \in {"om_fetch", "om_lock"}
                     /\ tasks'[h].pc = "om_react"
                     /\ tasks'[h].message_id = k

FetchResolves(h) ==
    tasks[h].pc = "om_fetch" /\ tasks'[h].pc \notin {"om_fetch", "om_reply"}

Abs(n) == IF n < 0 THEN -n ELSE n

TypeOK ==
    /\ confirm_cap \in 0..MaxCap
    /\ DOMAIN voting_sessions \subseteq MsgIds
    /\ session_lock \in Tasks \cup {NoHolder}
    /\ now \in Times
    /\ events \in 0..MaxEvents

\* ------------------------------------------------------------------------
\* C1: whenever a reaction-added handler that brought the count to
\* confirm_cap has finished its pin attempt (success, rate-limited, or
\* failed), the session of that key is no longer in the store.
C1_SessionRemovedAfterThreshold ==
    (pin_event.kind = "reaction" /\ PinCompleted(pin_event))
        => pin_event.key \notin DOMAIN voting_sessions

\* C2: with confirm_cap = N > 0, the pin executor is invoked for a session
\* only while at least N distinct users hold a vote, and the vote that takes
\* the number of voters from below N to N invokes it, in that same step, on
\* the session's target message.
C2_NoEarlyPin ==
    (pin_event.kind = "reaction" /\ PinInvoked(pin_event)) =>
        /\ confirm_cap > 0
        /\ pin_event.key \in DOMAIN voting_sessions
        /\ Cardinality(voting_sessions[pin_event.key].votes) >= confirm_cap
        /\ pin_event.target = voting_sessions[pin_event.key].target_message

C2_NthVotePins ==
    \A k \in DOMAIN voting_sessions \cap DOMAIN voting_sessions' :
        (/\ Cardinality(voting_sessions[k].votes) < confirm_cap
         /\ Cardinality(voting_sessions'[k].votes) >= confirm_cap)
        => /\ Cardinality(voting_sessions'[k].votes) = confirm_cap
           /\ pin_event'.kind = "reaction"
           /\ PinInvoked(pin_event')
           /\ pin_event'.key = k
           /\ pin_event'.target = voting_sessions'[k].target_message

C2_Threshold == [] C2_NoEarlyPin /\ [][C2_NthVotePins]_vars

C2_Witness ==
    /\ confirm_cap = MaxCap
    /\ pin_event.kind = "reaction"
    /\ pin_event.result = "pending"
    /\ pin_event.count = confirm_cap

\* C3: the pin executor is invoked at most once for the session of a key.
C3_NoRetry == \A k \in MsgIds : attempts[k] <= 1

\* C4: two pin attempts on the same channel that start less than
\* PIN_COOLDOWN_SECONDS apart never both end in a successful pin call.
C4_RateLimitAtomic ==
    [][pin_event'.result = "ok" =>
          \/ last_ok[pin_event'.channel] = -1
          \/ Abs(pin_event'.start - last_ok[pin_event'.channel])
                >= PIN_COOLDOWN_SECONDS]_vars

\* C5: a sweep at loop time >= T + SESSION_MAX_AGE removes a session stored
\* at loop time T, and a sweep before that time leaves it untouched.
C5_Expiry ==
    [][SweepStep =>
          \A k \in DOMAIN voting_sessions :
              /\ now >= created_time[k] + SESSION_MAX_AGE
                    => k \notin DOMAIN voting_sessions'
              /\ now < created_time[k] + SESSION_MAX_AGE
                    => /\ k \in DOMAIN voting_sessions'
                       /\ voting_sessions'[k] = voting_sessions[k]]_vars

\* C6: creating a session under a key that already has one is rejected and
\* leaves the existing session (target, votes, count) as it was.
C6_CreateRejected ==
    [][\A k \in DOMAIN voting_sessions :
          CreateStep(k) => /\ k \in DOMAIN voting_sessions'
                           /\ voting_sessions'[k] = voting_sessions[k]]_vars

\* C7: in every session of the store, vote_count is the number of distinct
\* users in votes, hence never negative.
C7_CountMatchesVotes ==
    \A k \in DOMAIN voting_sessions :
        /\ voting_sessions[k].vote_count = Cardinality(voting_sessions[k].votes)
        /\ voting_sessions[k].vote_count >= 0

C7_Witness ==
    \E k \in DOMAIN voting_sessions :
        /\ voting_sessions[k].vote_count = 1
        /\ events >= 4

\* C8: a second add_vote (remove_vote) by the same user returns False and
\* changes nothing; add_vote of an absent user followed by remove_vote of
\* that user gives back the session as it was.
C8_Idempotent ==
    \A k \in DOMAIN voting_sessions : \A u \in Users :
        LET s == voting_sessions[k]
            a1 == add_vote(s, u)
            a2 == add_vote(a1.session, u)
            r1 == remove_vote(s, u)
            r2 == remove_vote(r1.session, u)
        IN  /\ ~a2.result /\ a2.session = a1.session
            /\ ~r2.result /\ r2.session = r1.session
            /\ (u \notin s.votes) => /\ a1.result
                                     /\ remove_vote(a1.session, u).result
                                     /\ remove_vote(a1.session, u).session = s

C8_Witness ==
    \E k \in DOMAIN voting_sessions :
        /\ voting_sessions[k].votes # {}
        /\ voting_sessions[k].votes # Users \ {BotUser}

\* C9: whoever holds session_lock is not suspended in an external call.
C9_NoAwaitUnderLock ==
    session_lock # NoHolder =>
        tasks[session_lock].pc \notin {"om_fetch", "om_react", "om_reply",
                                       "om_pin", "ra_pin"}

\* C10: with confirm_cap = 0 the store stays empty, and every trigger
\* message whose reference resolves invokes the pin executor on the fetched
\* target in that step, leaving the store unchanged.
C10_StoreEmpty == confirm_cap = 0 => DOMAIN voting_sessions = {}

C10_PinOnFetch ==
    \A h \in Tasks :
        (confirm_cap = 0 /\ FetchResolves(h))
        => /\ pin_event'.kind = "message"
           /\ PinInvoked(pin_event')
           /\ pin_event'.task = h
           /\ pin_event'.key = tasks[h].message_id
           /\ pin_event'.target.channel = tasks[h].channel
           /\ voting_sessions' = voting_sessions

C10_ImmediatePin == [] C10_StoreEmpty /\ [][C10_PinOnFetch]_vars

C10_Witness ==
    /\ confirm_cap = 0
    /\ pin_event.kind = "message"
    /\ pin_event.result = "pending"

\* ------------------------------------------------------------------------
\* Steps of the reaction handlers and of the pin executor.
RemoveStep ==
    \/ \E h \in Tasks, id \in MsgIds, u \in Users, e \in Emojis :
          on_reaction_remove(h, id, u, e)
    \/ \E h \in Tasks : reaction_remove_after_lock(h)

NoPinStep ==
    /\ pin_event'.result = "none"
    /\ attempts' = attempts
    /\ pins_ok' = pins_ok
    /\ last_ok' = last_ok
    /\ \A h \in Tasks : tasks'[h].pc \in {"om_pin", "ra_pin"}
                             => tasks'[h] = tasks[h]

\* C11: a reaction-removed event never calls the pin executor and never
\* removes a session; it only takes the user's vote out of the session, whose
\* count drops by one exactly when the user had voted (so with confirm_cap = 2
\* one user voting, taking the vote back and voting again gives 1, 0, 1).
C11_RemoveOnlyUnvotes ==
    [][RemoveStep =>
          /\ NoPinStep
          /\ pin_cooldown' = pin_cooldown
          /\ DOMAIN voting_sessions' = DOMAIN voting_sessions
          /\ \A k \in DOMAIN voting_sessions :
                LET s == voting_sessions[k]
                    t == voting_sessions'[k]
                IN  /\ t.target_message = s.target_message
                    /\ t.votes \subseteq s.votes
                    /\ Cardinality(s.votes \ t.votes) <= 1
                    /\ t.vote_count = s.vote_count - Cardinality(s.votes \ t.votes)]_vars

C11_Witness ==
    /\ confirm_cap = 2
    /\ pin_event.kind = "remove"
    /\ pin_event.changed
    /\ pin_event.count = 0
    /\ pin_event.key \in DOMAIN voting_sessions
    /\ attempts[pin_event.key] = 0

\* C12: a pin attempt in a channel where no pin has succeeded yet is never
\* denied by the rate limiter, whatever the clock reads.
C12_FirstPinAllowed ==
    pin_event.result = "limited" => last_ok[pin_event.channel] # -1

C14_NotFoundStep ==
    \A h \in Tasks :
        (\E tid \in TargetIds, age \in TargetAges :
             fetch_returns(h, "NotFound", tid, age))
        => /\ voting_sessions' = voting_sessions
           /\ pin_cooldown' = pin_cooldown
           /\ NoPinStep
           /\ tasks'[h].pc = "om_reply"
           /\ tasks'[h].notice = "NotFound"

C14_ReplyStep ==
    \A h \in Tasks :
        reply_returns(h)
        => /\ voting_sessions' = voting_sessions
           /\ pin_cooldown' = pin_cooldown
           /\ NoPinStep
           /\ tasks'[h] = IdleTask

C14_NotFound == [][C14_NotFoundStep /\ C14_ReplyStep]_vars

C14_Witness ==
    \E h \in Tasks : /\ tasks[h].pc = "om_reply"
                     /\ tasks[h].notice = "NotFound"
                     /\ tasks[h].message_id \in DOMAIN voting_sessions

\* C15: a reaction added or removed by the bot itself, or with another emoji,
\* or on a message id without a session (also after the session was pinned
\* and removed, or swept) leaves the store and pin_cooldown as they were and
\* calls no pin.
AddStepOn(id, u, e) ==
    \/ \E h \in Tasks : on_reaction_add(h, id, u, e)
    \/ \E h \in Tasks : /\ reaction_add_after_lock(h)
                         /\ tasks[h].message_id = id
                         /\ tasks[h].user = u
                         /\ e = "approve"

RemoveStepOn(id, u, e) ==
    \/ \E h \in Tasks : on_reaction_remove(h, id, u, e)
    \/ \E h \in Tasks : /\ reaction_remove_after_lock(h)
                         /\ tasks[h].message_id = id
                         /\ tasks[h].user = u
                         /\ e = "approve"

C15_Frame ==
    /\ voting_sessions' = voting_sessions
    /\ pin_cooldown' = pin_cooldown
    /\ NoPinStep

\* (a step that breaks the frame is not the step of an ignored reaction)
C15_IgnoredReactions ==
    [][\/ C15_Frame
       \/ \A id \in MsgIds, u \in Users, e \in Emojis :
             (u = BotUser \/ e # "approve" \/ id \notin DOMAIN voting_sessions)
             => ~(AddStepOn(id, u, e) \/ RemoveStepOn(id, u, e))]_vars

C15_Witness ==
    /\ pin_event.kind = "add"
    /\ pin_event.count = NoSession
    /\ pins_ok[pin_event.key] = 1

\* C16: an add_reaction that raises does not end the handler: the session
\* was stored before the first reaction, every reaction step, failed or not,
\* leaves the store as it was, and the handler goes on to the next reaction
\* until all NUM_REACTIONS were attempted.
C16_ReactionStep ==
    \A h \in Tasks, ok \in BOOLEAN :
        add_reaction_returns(h, ok)
        => /\ voting_sessions' = voting_sessions
           /\ NoPinStep
           /\ IF tasks[h].i + 1 < NUM_REACTIONS
              THEN /\ tasks'[h].pc = "om_react"
                   /\ tasks'[h].i = tasks[h].i + 1
                   /\ tasks'[h].message_id = tasks[h].message_id
              ELSE tasks'[h] = IdleTask

C16_Created ==
    \A k \in MsgIds :
        CreateStep(k) => /\ k \in DOMAIN voting_sessions'
                         /\ \E h \in Tasks : /\ tasks'[h].pc = "om_react"
                                              /\ tasks'[h].message_id = k
                                              /\ tasks'[h].i = 0

C16_ReactionFailure == [][C16_ReactionStep /\ C16_Created]_vars

C16_Witness ==
    \E h \in Tasks : /\ tasks[h].pc = "om_react"
                     /\ tasks[h].notice = "reaction_failed"
                     /\ tasks[h].i = NUM_REACTIONS - 1
                     /\ tasks[h].message_id \in DOMAIN voting_sessions

\* C17: while a reaction handler waits for message.pin() it holds
\* session_lock and the session it counted is in the store, untouched by the
\* sweep and by every other handler, so the removal after a successful pin
\* finds the key; a vote that is counted keeps every vote counted before it;
\* and the sweep deletes only keys that are in the store.
C17_HeldSession ==
    \A h \in Tasks :
        tasks[h].pc = "ra_pin"
        => /\ session_lock = h
           /\ tasks[h].message_id \in DOMAIN voting_sessions
           /\ voting_sessions[tasks[h].message_id].target_message = tasks[h].target
           /\ voting_sessions[tasks[h].message_id].vote_count >= confirm_cap

C17_PinWindow ==
    \A h \in Tasks :
        tasks[h].pc = "ra_pin"
        => IF tasks'[h].pc = "ra_pin"
           THEN voting_sessions' = voting_sessions
           ELSE \/ voting_sessions' = voting_sessions
                \/ /\ pin_event'.result = "ok"
                   /\ DOMAIN voting_sessions' =
                          DOMAIN voting_sessions \ {tasks[h].message_id}
                   /\ \A k \in DOMAIN voting_sessions' :
                          voting_sessions'[k] = voting_sessions[k]

C17_NoLostVote ==
    (pin_event'.kind \in {"add", "reaction"} /\ pin_event'.changed)
    => /\ pin_event'.key \in DOMAIN voting_sessions
       /\ pin_event'.key \in DOMAIN voting_sessions'
       /\ voting_sessions[pin_event'.key].votes
              \subseteq voting_sessions'[pin_event'.key].votes
       /\ voting_sessions'[pin_event'.key].vote_count
              = voting_sessions[pin_event'.key].vote_count + 1

C17_SweepDeletesPresent ==
    SweepStep => /\ session_lock = NoHolder
                 /\ Cardinality(DOMAIN voting_sessions \ DOMAIN voting_sessions')
                       = pin_event'.count
                 /\ DOMAIN voting_sessions' \subseteq DOMAIN voting_sessions

C17_NoDoubleRemoval ==
    [] C17_HeldSession
    /\ [][C17_PinWindow /\ C17_NoLostVote /\ C17_SweepDeletesPresent]_vars

C17_Witness ==
    \E h \in Tasks, g \in Tasks :
        /\ tasks[h].pc = "ra_pin"
        /\ tasks[g].pc \in {"ra_lock", "rr_lock", "om_lock"}
        /\ now >= next_sweep

\* C18: a session is pinned successfully at most once: in the state a
\* successful pin of key k leaves, k is out of the store (the deletion and
\* the release of session_lock are one step), and the number of successful
\* pins made for the session stored under k never exceeds one.
C18_OnePinPerSession ==
    /\ \A k \in MsgIds : pins_ok[k] <= 1
    /\ (pin_event.kind = "reaction" /\ pin_event.result = "ok")
          => /\ pin_event.key \notin DOMAIN voting_sessions
             /\ session_lock = NoHolder

C18_Witness ==
    /\ pin_event.kind = "reaction"
    /\ pin_event.result = "ok"
    /\ pins_ok[pin_event.key] = 1
    /\ pin_event.count > 1

\* C19: pin_cooldown changes only when message.pin() succeeded: a denied or
\* failed attempt, and every step that is no pin attempt, leaves it as it was;
\* a successful pin sets the entry of the target's channel, and no other, to
\* the clock reading taken when the attempt started.
C19_CooldownStep ==
    /\ pin_event'.result # "ok" => pin_cooldown' = pin_cooldown
    /\ pin_event'.result = "pending"
          => /\ pin_event'.start = now
             /\ tasks'[pin_event'.task].current_time = now
             /\ tasks'[pin_event'.task].channel = pin_event'.channel
    /\ pin_event'.result = "ok"
          => /\ pin_event'.start = tasks[pin_event'.task].current_time
             /\ pin_event'.channel = tasks[pin_event'.task].channel
             /\ pin_cooldown' =
                   [pin_cooldown EXCEPT ![pin_event'.channel] = pin_event'.start]

C19_CooldownOnSuccess == [][C19_CooldownStep]_vars

C19_Witness ==
    /\ pin_event.result = "failed"
    /\ pin_event.start # now
    /\ pin_cooldown[pin_event.channel] # pin_event.start
    /\ \E c \in Channels : pin_cooldown[c] # 0

\* C20: an approval added by a user who is already in the votes of the
\* session calls no pin and leaves the store as it was, also when the count
\* is at or above confirm_cap.
C20_DuplicateVote ==
    [][\A id \in DOMAIN voting_sessions, u \in Users :
          (/\ u \in voting_sessions[id].votes
           /\ AddStepOn(id, u, "approve"))
          => /\ NoPinStep
             /\ voting_sessions' = voting_sessions]_vars

C20_Witness ==
    /\ confirm_cap > 0
    /\ pin_event.kind = "add"
    /\ ~pin_event.changed
    /\ pin_event.count >= confirm_cap

====
